---- MODULE Spec2Model ----
(***************************************************************************)
(* A model of enum.py (yapyenum): the Enumeration base class, its          *)
(* metaclass and the _EnumerationValue class, with Python 2 semantics      *)
(* (the module uses __metaclass__ and non-empty __slots__ on an int        *)
(* subclass).                                                              *)
(*                                                                         *)
(* The state is the interpreter's object graph as far as the module        *)
(* builds it: the heap of objects the module allocates (singleton          *)
(* instances and value objects) and the list of enumeration classes, each  *)
(* with its class attributes.  Init is the state after the module is       *)
(* imported: the class statement of Enumeration itself has run the         *)
(* metaclass.  Every later class statement is one Declare step; every      *)
(* caller operation is one step that leaves its outcome in ret, which the  *)
(* caller takes (Return) before its next statement.                        *)
(*                                                                         *)
(* Member names are drawn from Names: ordinary identifiers, none of which  *)
(* is one of the class's own attribute names (instance, _values, _enum_,   *)
(* name), and every declared class derives directly from Enumeration.      *)
(***************************************************************************)
EXTENDS Integers, Sequences, FiniteSets, TLC

\* Longest _enum_ list a class statement supplies.
MaxLen == 2

\* Class attributes a caller may rebind on the class itself in one run.
MaxTypeWrites == 1

\* Member-name identifiers a class statement may list.
Names == {"foo", "bar", "rab"}

\* Identifiers used as attribute names and as string probes: the member
\* names and one that no class declares.
Idents == Names \cup {"zzz"}

\* Slot names of _EnumerationValue, plus one it does not have.
ValueAttrs == {"name", "_enum", "zzz"}

\* Names of the classes, in the order their class statements run.  The
\* first is the base class, created when the module is imported.
ClassNames == <<"Enumeration", "EnumTest", "ET">>

\* Plain integers used as probes and as indices.
IntProbes == (0 - (MaxLen + 1)) .. (MaxLen + 1)

\* Plain integers a caller assigns.
AssignedInts == {6}

VARIABLES
    heap,      \* the objects allocated so far; an object's identity is its index
    classes,   \* the enumeration classes created so far
    ret        \* the outcome of the caller's statement, until the caller takes it

vars == <<heap, classes, ret>>

----------------------------------------------------------------------------
\* Python values as the model passes them around.

PyInt(n) == [kind |-> "int", int |-> n, str |-> "", id |-> 0]
PyStr(s) == [kind |-> "str", int |-> 0, str |-> s, id |-> 0]
PyRef(i) == [kind |-> "ref", int |-> 0, str |-> "", id |-> i]
PyNone   == [kind |-> "none", int |-> 0, str |-> "", id |-> 0]

\* The integer a value stands for: a plain int is itself, a reference to a
\* value object is the int the object was built from.
IntOf(h, v) == IF v.kind = "ref" THEN h[v.id].int ELSE v.int

\* int.__eq__, which _EnumerationValue inherits.
PyEq(h, v, w) == IntOf(h, v) = IntOf(h, w)

\* The empty dictionary (a class's attributes, an instance's __dict__).
EmptyDict == [a \in {} |-> PyNone]

Range(s) == {s[i] : i \in 1..Len(s)}

IsDistinct(s) == \A i, j \in 1..Len(s) : s[i] = s[j] => i = j

SeqsUpTo(S, n) == UNION {[1..k -> S] : k \in 0..n}

----------------------------------------------------------------------------
\* _EnumerationValue

\* _EnumerationValue.__new__(cls, name, enum_name, value)
EnumerationValue_swapped(name, enum_name, value) ==
    [kind |-> "value", cls |-> 0, int |-> value,
     name |-> enum_name, _enum |-> name, dict |-> EmptyDict]

EnumerationValue(name, enum_name, value) ==
    [kind |-> "value", cls |-> 0, int |-> value,
     name |-> name, _enum |-> enum_name, dict |-> EmptyDict]

\* A slot of a value object, written the way int.__setattr__ writes it.
SlotWrite(h, id, attr, s) ==
    IF attr = "name" THEN [h EXCEPT ![id].name = s]
    ELSE IF attr = "_enum" THEN [h EXCEPT ![id]._enum = s]
    ELSE h

\* _EnumerationValue.__setattr__(self, name, value): raises, writes nothing.
EnumerationValue__setattr__writes(h, id, attr, s) ==
    [heap |-> SlotWrite(h, id, attr, s), err |-> "AttributeError"]

EnumerationValue__setattr__(h, id, attr, s) ==
    [heap |-> h, err |-> "AttributeError"]

\* value.name / value._enum: a slot read; any other attribute is unknown.
EnumerationValue__getattr__(h, id, attr) ==
    IF attr = "name" THEN [val |-> PyStr(h[id].name), err |-> ""]
    ELSE IF attr = "_enum" THEN [val |-> PyStr(h[id]._enum), err |-> ""]
    ELSE [val |-> PyNone, err |-> "AttributeError"]

\* _EnumerationValue.__repr__: the three fields of '<%s: %s=%d>'.
EnumerationValue__repr__(h, id) == <<h[id]._enum, h[id].name, h[id].int>>

----------------------------------------------------------------------------
\* Dictionaries (a class's attributes, an instance's __dict__): functions
\* from attribute names to values.

Bind(d, a, v) == [x \in (DOMAIN d) \cup {a} |-> IF x = a THEN v ELSE d[x]]

\* A list subscript, list[i], with Python's negative indices: IndexError
\* outside -len .. len-1.
ListIndex(list, i) ==
    IF 0 <= i /\ i < Len(list) THEN [str |-> list[i + 1], err |-> ""]
    ELSE IF 0 - Len(list) <= i /\ i < 0
        THEN [str |-> list[Len(list) + i + 1], err |-> ""]
    ELSE [str |-> "", err |-> "IndexError"]

\* enumerate(list): the pairs (0, list[0]), (1, list[1]), ...
Enumerate_from1(list) ==
    [i \in 1..Len(list) |-> [value |-> i, member_name |-> list[i]]]

Enumerate(list) ==
    [i \in 1..Len(list) |-> [value |-> i - 1, member_name |-> list[i]]]

----------------------------------------------------------------------------
\* Enumeration and its metaclass

\* type.__new__(cls, name, bases, dct): the new class; its instances have a
\* __dict__ unless dct declares __slots__.
TypeNew(name, dct) ==
    [name |-> name, _enum_ |-> dct._enum_, _values |-> <<>>, instance |-> 0,
     dict |-> EmptyDict, has_dict |-> ~dct.has_slots]

\* __MetaEnumeration.__new__: forces __slots__ = [] into the class body.
MetaEnumeration__new__keepsdct(name, dct) == TypeNew(name, dct)

MetaEnumeration__new__(name, dct) ==
    TypeNew(name, [dct EXCEPT !.has_slots = TRUE])

\* The object object.__new__(cls) allocates.
InstanceObject(t) ==
    [kind |-> "instance", cls |-> t, int |-> 0,
     name |-> "", _enum |-> "", dict |-> EmptyDict]

\* Enumeration.__new__(cls, first_time=...): a fresh object the first
\* time, cls.instance on every later call.
Enumeration__new__shared(h, C, t, first_time) ==
    IF first_time
        THEN [heap |-> Append(h, InstanceObject(t)), val |-> PyRef(Len(h) + 1)]
        ELSE [heap |-> h, val |-> PyRef(1)]

Enumeration__new__(h, C, t, first_time) ==
    IF first_time
        THEN [heap |-> Append(h, InstanceObject(t)), val |-> PyRef(Len(h) + 1)]
        ELSE [heap |-> h, val |-> PyRef(C.instance)]

\* setattr(cls, a, v) on a class: type.__setattr__ binds a in the class's
\* own namespace, replacing an earlier binding.
TypeSetAttr_keepfirst(C, a, v) ==
    IF a \in DOMAIN C.dict THEN C ELSE [C EXCEPT !.dict = Bind(C.dict, a, v)]

TypeSetAttr(C, a, v) == [C EXCEPT !.dict = Bind(C.dict, a, v)]

\* The loop of __MetaEnumeration.__init__ from its i-th pair on.
RECURSIVE MetaInitLoop(_, _, _, _)
MetaInitLoop(pairs, i, name, st) ==
    IF i > Len(pairs) THEN st
    ELSE LET ev == EnumerationValue(pairs[i].member_name, name, pairs[i].value)
             h1 == Append(st.heap, ev)
             id == Len(h1)
             C1 == TypeSetAttr(st.cls, pairs[i].member_name, PyRef(id))
             C2 == [C1 EXCEPT !._values = Append(C1._values, id)]
         IN  MetaInitLoop(pairs, i + 1, name, [heap |-> h1, cls |-> C2])

\* __MetaEnumeration.__init__(cls, name, bases, dct), for the class C that
\* becomes class number t.
MetaEnumeration__init__(h, C, t, name) ==
    LET r  == Enumeration__new__(h, C, t, TRUE)
        C1 == [C EXCEPT !.instance = r.val.id, !._values = <<>>]
    IN  MetaInitLoop(Enumerate(C1._enum_), 1, name, [heap |-> r.heap, cls |-> C1])

\* A class statement: the metaclass is called, __new__ then __init__.
ClassStatement(h, t, name, dct) ==
    MetaEnumeration__init__(h, MetaEnumeration__new__(name, dct), t, name)

\* Attribute lookup along the class's MRO: the class itself, then the base
\* class Enumeration.
ClassLookup(cs, t, a) ==
    IF a \in DOMAIN cs[t].dict THEN [found |-> TRUE, val |-> cs[t].dict[a]]
    ELSE IF a \in DOMAIN cs[1].dict THEN [found |-> TRUE, val |-> cs[1].dict[a]]
    ELSE [found |-> FALSE, val |-> PyNone]

\* cls.a
TypeGetAttr(cs, t, a) ==
    LET l == ClassLookup(cs, t, a)
    IN  [val |-> l.val, err |-> IF l.found THEN "" ELSE "AttributeError"]

\* self.a on an instance: its __dict__ if it has one, then the class.
InstanceGetAttr(h, cs, id, a) ==
    IF a \in DOMAIN h[id].dict THEN [val |-> h[id].dict[a], err |-> ""]
    ELSE TypeGetAttr(cs, h[id].cls, a)

\* self.a = v on an instance: object.__setattr__.  With no __dict__ it
\* raises AttributeError ("is read-only" for a class attribute, "has no
\* attribute" otherwise); with a __dict__ it stores v there.
InstanceSetAttr(h, cs, id, a, v) ==
    IF cs[h[id].cls].has_dict
        THEN [heap |-> [h EXCEPT ![id].dict = Bind(h[id].dict, a, v)],
              err |-> "", msg |-> ""]
        ELSE [heap |-> h, err |-> "AttributeError",
              msg |-> IF ClassLookup(cs, h[id].cls, a).found
                          THEN "read-only" ELSE "no attribute"]

\* Enumeration.__contains__(self, name_or_value)
Enumeration__contains__namesonly(h, cs, id, x) ==
    LET C == cs[h[id].cls]
    IN  x.kind = "str" /\ x.str \in Range(C._enum_)

Enumeration__contains__(h, cs, id, x) ==
    LET C == cs[h[id].cls]
    IN  IF x.kind = "str"
            THEN x.str \in Range(C._enum_)
            ELSE \E k \in 1..Len(C._values) : PyEq(h, PyRef(C._values[k]), x)

\* __MetaEnumeration.__contains__(cls, name_or_value)
MetaEnumeration__contains__base(h, cs, t, x) ==
    Enumeration__contains__(h, cs, cs[1].instance, x)

MetaEnumeration__contains__(h, cs, t, x) ==
    Enumeration__contains__(h, cs, cs[t].instance, x)

\* Enumeration.name(cls, value)
Enumeration_name(h, cs, t, value) == ListIndex(cs[t]._enum_, IntOf(h, value))

----------------------------------------------------------------------------
\* The state machine

\* The outcome record of an operation: the operation, the class and object
\* it was applied to, its arguments (key, arg) and what it returned (val,
\* bool) or raised (err, msg).  NoRet: the caller is between statements.
NoRet ==
    [op |-> "idle", t |-> 0, id |-> 0, key |-> "", arg |-> PyNone,
     val |-> PyNone, bool |-> FALSE, err |-> "", msg |-> ""]

Idle == ret = NoRet

Declared == 1..Len(classes)

\* The class attributes bound to something other than a value object.
Rebound ==
    {<<t, a>> \in Declared \X Idents :
        a \in DOMAIN classes[t].dict /\ classes[t].dict[a].kind # "ref"}

\* The value objects allocated so far.
ValueObjects == {i \in 1..Len(heap) : heap[i].kind = "value"}

\* What a caller passes where an integer is expected: a plain int or a
\* member of some declared enumeration.
IntArgs == {PyInt(n) : n \in IntProbes} \cup {PyRef(i) : i \in ValueObjects}

\* What a caller passes to a membership test.
Probes == IntArgs \cup {PyStr(s) : s \in Idents}

\* Importing the module runs the class statement of Enumeration (whose
\* body sets __slots__ = [] and _enum_ = []).
Init ==
    LET r == ClassStatement(<<>>, 1, ClassNames[1],
                            [_enum_ |-> <<>>, has_slots |-> TRUE])
    IN  /\ heap = r.heap
        /\ classes = <<r.cls>>
        /\ ret = NoRet

\* class <name>(Enumeration): _enum_ = names
Declare ==
    /\ Idle
    /\ Len(classes) < Len(ClassNames)
    /\ \E names \in SeqsUpTo(Names, MaxLen) :
         LET t == Len(classes) + 1
             r == ClassStatement(heap, t, ClassNames[t],
                                 [_enum_ |-> names, has_slots |-> FALSE])
         IN  /\ heap' = r.heap
             /\ classes' = Append(classes, r.cls)
             /\ ret' = [NoRet EXCEPT !.op = "declare", !.t = t]

\* cls()
Construct ==
    /\ Idle
    /\ \E t \in Declared :
       LET r == Enumeration__new__(heap, classes[t], t, FALSE)
       IN  /\ heap' = r.heap
           /\ ret' = [NoRet EXCEPT !.op = "construct", !.t = t, !.val = r.val]
           /\ UNCHANGED classes

\* cls.a
ReadType ==
    /\ Idle
    /\ \E t \in Declared, a \in Idents :
       LET r == TypeGetAttr(classes, t, a)
       IN  /\ ret' = [NoRet EXCEPT !.op = "type.getattr", !.t = t, !.key = a,
                                   !.val = r.val, !.err = r.err]
           /\ UNCHANGED <<heap, classes>>

\* cls().a
ReadInstance ==
    /\ Idle
    /\ \E t \in Declared, a \in Idents :
       LET id == Enumeration__new__(heap, classes[t], t, FALSE).val.id
           r  == InstanceGetAttr(heap, classes, id, a)
       IN  /\ ret' = [NoRet EXCEPT !.op = "instance.getattr", !.t = t, !.id = id,
                                   !.key = a, !.val = r.val, !.err = r.err]
           /\ UNCHANGED <<heap, classes>>

\* cls().a = 6
WriteInstance ==
    /\ Idle
    /\ \E t \in Declared, a \in Idents, n \in AssignedInts :
       LET id == Enumeration__new__(heap, classes[t], t, FALSE).val.id
           r  == InstanceSetAttr(heap, classes, id, a, PyInt(n))
       IN  /\ heap' = r.heap
           /\ ret' = [NoRet EXCEPT !.op = "instance.setattr", !.t = t, !.id = id,
                                   !.key = a, !.arg = PyInt(n),
                                   !.err = r.err, !.msg = r.msg]
           /\ UNCHANGED classes

\* member.a, for a value object
ReadValue ==
    /\ Idle
    /\ \E id \in ValueObjects, a \in ValueAttrs :
       LET r == EnumerationValue__getattr__(heap, id, a)
       IN  /\ ret' = [NoRet EXCEPT !.op = "value.getattr", !.id = id, !.key = a,
                                   !.val = r.val, !.err = r.err]
           /\ UNCHANGED <<heap, classes>>

\* member.a = s, for a value object
WriteValue ==
    /\ Idle
    /\ \E id \in ValueObjects, a \in ValueAttrs, s \in Names :
       LET r == EnumerationValue__setattr__(heap, id, a, s)
       IN  /\ heap' = r.heap
           /\ ret' = [NoRet EXCEPT !.op = "value.setattr", !.id = id, !.key = a,
                                   !.arg = PyStr(s), !.err = r.err]
           /\ UNCHANGED classes

\* x in cls()
ContainsInstance ==
    /\ Idle
    /\ \E t \in Declared, x \in Probes :
       LET id == Enumeration__new__(heap, classes[t], t, FALSE).val.id
       IN  /\ ret' = [NoRet EXCEPT !.op = "instance.contains", !.t = t,
                          !.id = id, !.arg = x,
                          !.bool = Enumeration__contains__(heap, classes, id, x)]
           /\ UNCHANGED <<heap, classes>>

\* x in cls
ContainsType ==
    /\ Idle
    /\ \E t \in Declared, x \in Probes :
       /\ ret' = [NoRet EXCEPT !.op = "type.contains", !.t = t, !.arg = x,
                      !.bool = MetaEnumeration__contains__(heap, classes, t, x)]
       /\ UNCHANGED <<heap, classes>>

\* cls.name(value)
Name ==
    /\ Idle
    /\ \E t \in Declared, v \in IntArgs :
       LET r == Enumeration_name(heap, classes, t, v)
       IN  /\ ret' = [NoRet EXCEPT !.op = "name", !.t = t, !.arg = v,
                                   !.val = PyStr(r.str), !.err = r.err]
           /\ UNCHANGED <<heap, classes>>

\* cls.a = 6, on the class itself: the metaclass defines no __setattr__,
\* so type.__setattr__ binds the attribute.
WriteType ==
    /\ Idle
    /\ Cardinality(Rebound) < MaxTypeWrites
    /\ \E t \in Declared, a \in Idents, n \in AssignedInts :
       /\ classes' = [classes EXCEPT ![t] = TypeSetAttr(classes[t], a, PyInt(n))]
       /\ ret' = [NoRet EXCEPT !.op = "type.setattr", !.t = t, !.key = a,
                               !.arg = PyInt(n)]
       /\ UNCHANGED heap

\* The caller takes the outcome and goes on to its next statement.
Return ==
    /\ ~Idle
    /\ ret' = NoRet
    /\ UNCHANGED <<heap, classes>>

\* The operations on instances, on value objects and the lookups.
Next ==
    \/ Return
    \/ Declare
    \/ Construct
    \/ ReadType
    \/ ReadInstance
    \/ WriteInstance
    \/ ReadValue
    \/ WriteValue
    \/ ContainsInstance
    \/ ContainsType
    \/ Name

Spec == Init /\ [][Next]_vars

\* The same with assignments to attributes of the class itself.
NextT == Next \/ WriteType

SpecT == Init /\ [][NextT]_vars

----------------------------------------------------------------------------
\* Properties
\*
\* A property of the object graph (heap, classes) is stated for the states
\* in which the caller is between statements (Idle): Return leaves the
\* graph as the statement left it, so every graph the program reaches is
\* seen in such a state.  A property of a statement's outcome is stated on
\* ret, in the state the statement leads to.

\* The singleton a caller gets from cls().
Singleton(t) == Enumeration__new__(heap, classes[t], t, FALSE).val.id

\* The 0-based positions at which a name occurs in a list.
Positions(list, n) == {i \in 0..(Len(list) - 1) : list[i + 1] = n}

Max(S) == CHOOSE m \in S : \A x \in S : x <= m

MemberOps == {"type.getattr", "instance.getattr"}

\* C1: in a class declared with distinct names [n0, ..., nk], the attribute
\* n_i read on the class and read on the singleton is the member of value i,
\* and it compares equal to the plain integer i.
C1_MemberValues ==
    /\ Idle => \A t \in Declared :
         IsDistinct(classes[t]._enum_) =>
           \A i \in 0..(Len(classes[t]._enum_) - 1) :
              LET n  == classes[t]._enum_[i + 1]
                  rt == TypeGetAttr(classes, t, n)
                  ri == InstanceGetAttr(heap, classes, Singleton(t), n)
              IN  /\ rt.err = "" /\ ri.err = ""
                  /\ IntOf(heap, rt.val) = i
                  /\ PyEq(heap, rt.val, PyInt(i))
                  /\ ri.val = rt.val
    /\ (/\ ret.op \in MemberOps
        /\ IsDistinct(classes[ret.t]._enum_)
        /\ ret.key \in Range(classes[ret.t]._enum_))
         => /\ ret.err = ""
            /\ Positions(classes[ret.t]._enum_, ret.key) = {IntOf(heap, ret.val)}

\* A member other than the first has been read through the singleton of a
\* class declared with distinct names.
C1_Witness ==
    /\ ret.op = "instance.getattr"
    /\ ret.err = ""
    /\ IsDistinct(classes[ret.t]._enum_)
    /\ ret.key \in Range(classes[ret.t]._enum_)
    /\ IntOf(heap, ret.val) = 1

\* The instance objects of class t on the heap.
InstancesOf(t) ==
    {i \in 1..Len(heap) : heap[i].kind = "instance" /\ heap[i].cls = t}

\* C2: every class has exactly one instance object, the one stored at its
\* declaration; every construction request returns it; two classes never
\* share it, also when they were declared from the same list.
C2_Singleton ==
    /\ Idle => \A t \in Declared :
         /\ InstancesOf(t) = {classes[t].instance}
         /\ Singleton(t) = classes[t].instance
    /\ Idle => \A t, u \in Declared : t # u => Singleton(t) # Singleton(u)
    /\ ret.op = "construct" =>
         /\ ret.val.kind = "ref"
         /\ InstancesOf(ret.t) = {ret.val.id}

\* Two classes declared from the same non-empty list exist and the later
\* one has been asked for its instance.
C2_Witness ==
    /\ ret.op = "construct"
    /\ ret.t = 3
    /\ classes[2]._enum_ = classes[3]._enum_
    /\ Len(classes[3]._enum_) > 0
    /\ ret.val.id # classes[2].instance

ContainsOps == {"type.contains", "instance.contains"}

\* C3: a string probe is in the class and in its singleton exactly when it
\* is one of the declared names (never, for an empty list); the two tests
\* agree.
C3_StringMembership ==
    /\ Idle => \A t \in Declared, s \in Idents :
         LET declared == \E i \in 1..Len(classes[t]._enum_) :
                            classes[t]._enum_[i] = s
         IN  /\ MetaEnumeration__contains__(heap, classes, t, PyStr(s)) = declared
             /\ Enumeration__contains__(heap, classes, Singleton(t), PyStr(s))
                  = declared
    /\ (ret.op \in ContainsOps /\ ret.arg.kind = "str") =>
         ret.bool = (\E i \in 1..Len(classes[ret.t]._enum_) :
                        classes[ret.t]._enum_[i] = ret.arg.str)

\* A declared name has been found in a class by the test on the class.
C3_Witness ==
    /\ ret.op = "type.contains"
    /\ ret.arg.kind = "str"
    /\ ret.t > 1
    /\ ret.bool
    /\ \E s \in Idents :
         ~MetaEnumeration__contains__(heap, classes, ret.t, PyStr(s))

\* C4: an integer probe (plain or a member) is in the class when it is the
\* value of a declared member, and is not when it is outside 0..k.
C4_IntMembership ==
    /\ Idle => \A t \in Declared, x \in IntArgs :
         LET v == IntOf(heap, x)
             k == Len(classes[t]._enum_) - 1
             isMember == \E n \in Range(classes[t]._enum_) :
                            IntOf(heap, TypeGetAttr(classes, t, n).val) = v
             in == MetaEnumeration__contains__(heap, classes, t, x)
         IN  /\ isMember => in
             /\ (v < 0 \/ v > k) => ~in
    /\ (ret.op \in ContainsOps /\ ret.arg.kind # "str") =>
         LET v == IntOf(heap, ret.arg)
         IN  ret.bool = (0 <= v /\ v < Len(classes[ret.t]._enum_))

\* A plain integer that is a member's value has been found in a class.
C4_Witness ==
    /\ ret.op = "type.contains"
    /\ ret.arg = PyInt(1)
    /\ ret.bool
    /\ ~MetaEnumeration__contains__(heap, classes, ret.t, PyInt(2))
    /\ ~MetaEnumeration__contains__(heap, classes, ret.t, PyInt(0 - 1))

\* C5: name(i) returns n_i for 0 <= i <= k and raises IndexError for every
\* i < 0 and every i > k.
C5_NameRange ==
    ret.op = "name" =>
       LET i == IntOf(heap, ret.arg)
           list == classes[ret.t]._enum_
       IN  IF 0 <= i /\ i < Len(list)
               THEN ret.err = "" /\ ret.val = PyStr(list[i + 1])
               ELSE ret.err = "IndexError"

SetOps == {"instance.setattr", "value.setattr"}

\* C6: an assignment to an attribute of a singleton (declared member or
\* not; a declared class or the base class) or of a value object raises
\* AttributeError.
C6_WritesRaise ==
    /\ Idle => \A t \in Declared, a \in Idents, n \in AssignedInts :
         LET r == InstanceSetAttr(heap, classes, Singleton(t), a, PyInt(n))
         IN  /\ r.err = "AttributeError"
             /\ r.msg = IF a \in Range(classes[t]._enum_)
                            THEN "read-only" ELSE "no attribute"
    /\ Idle => \A id \in ValueObjects, a \in ValueAttrs, s \in Names :
         EnumerationValue__setattr__(heap, id, a, s).err = "AttributeError"
    /\ ret.op \in SetOps => ret.err = "AttributeError"

\* An assignment to a declared member of a declared class's singleton has
\* been attempted.
C6_Witness ==
    /\ ret.op = "instance.setattr"
    /\ ret.t > 1
    /\ ret.key \in Range(classes[ret.t]._enum_)
    /\ ret.err = "AttributeError"

\* What a caller can observe of the enumerations in the object graph (h, cs):
\* each value object's representation, each class's member list, the value
\* read for each identifier on the class and on its singleton, and the
\* results of the membership tests and name lookups.
Observable(h, cs) ==
    [repr     |-> [id \in {i \in 1..Len(h) : h[i].kind = "value"} |->
                      EnumerationValue__repr__(h, id)],
     members  |-> [t \in 1..Len(cs) |-> cs[t]._enum_],
     onType   |-> [t \in 1..Len(cs) |->
                      [a \in Idents |-> TypeGetAttr(cs, t, a)]],
     onSelf   |-> [t \in 1..Len(cs) |->
                      [a \in Idents |-> InstanceGetAttr(h, cs, cs[t].instance, a)]],
     intOf    |-> [t \in 1..Len(cs) |->
                      [a \in Idents |-> IntOf(h, TypeGetAttr(cs, t, a).val)]],
     contains |-> [t \in 1..Len(cs) |->
                      [x \in {PyInt(n) : n \in IntProbes}
                             \cup {PyStr(a) : a \in Idents} |->
                          <<MetaEnumeration__contains__(h, cs, t, x),
                            Enumeration__contains__(h, cs, cs[t].instance, x)>>]],
     name     |-> [t \in 1..Len(cs) |->
                      [n \in IntProbes |-> Enumeration_name(h, cs, t, PyInt(n))]]]

\* C7: once a class is declared, no caller operation (assignments on the
\* class itself included) changes its member list, its list of values, or
\* the value read for a member name on the class or on its singleton.
C7_Immutable ==
    [][\A t \in Declared :
          /\ classes'[t]._enum_ = classes[t]._enum_
          /\ classes'[t]._values = classes[t]._values
          /\ \A n \in Range(classes[t]._enum_) :
                /\ TypeGetAttr(classes', t, n) = TypeGetAttr(classes, t, n)
                /\ InstanceGetAttr(heap', classes', classes'[t].instance, n)
                     = InstanceGetAttr(heap, classes, classes[t].instance, n)
                /\ IntOf(heap', TypeGetAttr(classes', t, n).val)
                     = IntOf(heap, TypeGetAttr(classes, t, n).val)]_vars

\* C8: a write that fails with an error leaves everything observable as it
\* was: the value objects' value, name and owning-class name, the member
\* bound to every name, the membership tests and the name lookups.
C8_RejectedWriteFrame ==
    [][(ret'.op \in SetOps /\ ret'.err # "")
          => /\ Len(heap') = Len(heap)
             /\ Len(classes') = Len(classes)
             /\ Observable(heap', classes') = Observable(heap, classes)]_vars

\* An assignment to the name of a value object has been rejected, the
\* assigned string being another than its name.
C8_Witness ==
    /\ ret.op = "value.setattr"
    /\ ret.key = "name"
    /\ ret.err = "AttributeError"
    /\ heap[ret.id].name # ret.arg.str

\* C9: in a class declared with distinct names, a member's own name is the
\* name it is bound to and the name the class's lookup gives for it, and the
\* attribute named name(i) has value i; in every class, a value object's own
\* name agrees with the class's lookup of it.
C9_NameRoundTrip ==
    /\ Idle => \A t \in Declared :
         IsDistinct(classes[t]._enum_) =>
           /\ \A n \in Range(classes[t]._enum_) :
                 LET m == TypeGetAttr(classes, t, n).val
                 IN  /\ m.kind = "ref"
                     /\ EnumerationValue__getattr__(heap, m.id, "name")
                          = [val |-> PyStr(n), err |-> ""]
                     /\ Enumeration_name(heap, classes, t, m)
                          = [str |-> n, err |-> ""]
           /\ \A i \in 0..(Len(classes[t]._enum_) - 1) :
                 LET r == Enumeration_name(heap, classes, t, PyInt(i))
                 IN  /\ r.err = ""
                     /\ IntOf(heap, TypeGetAttr(classes, t, r.str).val) = i
    /\ Idle => \A t \in Declared :
         \A k \in 1..Len(classes[t]._values) :
            LET id == classes[t]._values[k]
            IN  Enumeration_name(heap, classes, t, PyRef(id))
                  = [str |-> EnumerationValue__getattr__(heap, id, "name").val.str,
                     err |-> ""]

\* The class's lookup has been asked for the name of its second member, in
\* a class declared with distinct names.
C9_Witness ==
    /\ ret.op = "name"
    /\ ret.arg.kind = "ref"
    /\ ret.err = ""
    /\ IsDistinct(classes[ret.t]._enum_)
    /\ Len(classes[ret.t]._enum_) = 2
    /\ ret.arg.id = classes[ret.t]._values[2]
    /\ ret.val.str = heap[ret.arg.id].name

\* C10: a class statement whose list repeats a name completes; every name
\* ends bound to the value of its last occurrence, integer membership and
\* name(i) cover every position 0..k, and for an earlier occurrence at i
\* the attribute named name(i) does not have value i.
C10_DuplicateNames ==
    (Idle \/ ret.op = "declare") => \A t \in Declared :
       LET list == classes[t]._enum_
       IN  /\ Len(classes[t]._values) = Len(list)
           /\ \A n \in Range(list) :
                 LET r == TypeGetAttr(classes, t, n)
                 IN  r.err = "" /\ IntOf(heap, r.val) = Max(Positions(list, n))
           /\ \A i \in 0..(Len(list) - 1) :
                 LET r == Enumeration_name(heap, classes, t, PyInt(i))
                 IN  /\ MetaEnumeration__contains__(heap, classes, t, PyInt(i))
                     /\ r = [str |-> list[i + 1], err |-> ""]
                     /\ (\E j \in (i + 1)..(Len(list) - 1) : list[j + 1] = list[i + 1])
                          => IntOf(heap, TypeGetAttr(classes, t, r.str).val) # i

\* A class statement whose list repeats a name has completed.
C10_Witness ==
    /\ ret.op = "declare"
    /\ ~IsDistinct(classes[ret.t]._enum_)
    /\ IntOf(heap, TypeGetAttr(classes, ret.t, classes[ret.t]._enum_[1]).val) # 0

====
